---------------------------- MODULE Spec2Model ----------------------------
(***************************************************************************)
(* A model of the spd3303x crate: the SCPI wire codec (src/src/lib.rs,     *)
(* src/src/commands.rs), the session layer (src/src/spd3303x.rs) and the   *)
(* channel views that share one session behind a lock                      *)
(* (src/src/channel_control.rs, src/src/fixed_channel_control.rs).         *)
(*                                                                         *)
(* Wire text is modelled by TLA+ strings, which are sequences of           *)
(* characters: Len, \o, SubSeq, Head and Tail apply to them.  A cursor     *)
(* (`&mut &str` in the source) is the text that remains to be consumed.    *)
(***************************************************************************)
EXTENDS Integers, Sequences, FiniteSets, TLC

VARIABLES
    \* ---- build profile --------------------------------------------------
    overflow_checks, \* TRUE: arithmetic overflow panics (debug); FALSE: wraps
    \* ---- codec harness: one decoder applied to one input ------------------
    c_type,          \* the type whose ScpiDeserialize impl is applied
    c_value,         \* the value that is encoded, if the text comes from one
    c_input,         \* the cursor before the call
    c_out,           \* the outcome: [ok, val, rest]
    c_pc,            \* "encode" | "status" | "ready" | "encoded" | "done",
                     \* "parse" | "parsed" | "parse2" | "parsed2"
    \* ---- the session and its callers -------------------------------------
    shared,          \* TRUE once into_channels has wrapped the session
    lock,            \* the task holding the Mutex<Spd3303x>, or "free"
    pc,              \* per task: where it is inside its call
    call,            \* per task: the method called and its arguments
    id,              \* per task: the number of its current call
    ret,             \* per task: what the call returned
    ops,             \* per task: the steps the current call has performed
    written,         \* per task: the buffer the current call wrote
    line,            \* per task: the String read_line filled
    line_tags,       \* per task: for each character of line, the call answered
    parsed,          \* per task: the outcome of Response::deserialize
    calls,           \* the number of calls started so far
    \* ---- the transport and the device behind it --------------------------
    stream,          \* "open" | "closed" (end of stream) | "failed" (I/O error)
    dev_in,          \* requests the device has received and not yet handled
    dev_output,      \* per channel: the output state the device was put in
    last_output,     \* per channel: the state of the last set_output that
                     \* returned Ok
    rx,              \* characters the device has sent and no read has taken
    rx_tags,         \* for each character of rx, the call it answers
    \* ---- connect_hostname ------------------------------------------------
    lookup,          \* what lookup_host yields: [ok, addresses]
    k_pc,            \* "off" | "lookup" | "socket" | "connect" | "done"
    k_index,         \* the position of the loop in `addresses`
    k_sockets,       \* how many sockets TcpSocket::new_v4 has created
    k_attempts,      \* the candidates socket.connect was called on, in order
    k_ret            \* what connect_hostname returned

(***************************************************************************)
(* Text helpers                                                            *)
(***************************************************************************)
Char(s, i) == SubSeq(s, i, i)
Take(s, n) == SubSeq(s, 1, n)
Drop(s, n) == SubSeq(s, n + 1, Len(s))

\* str::strip_prefix(..).is_some()
starts_with(s, lit) == Len(lit) <= Len(s) /\ Take(s, Len(lit)) = lit

\* str::find(char): the 1-based index of the first occurrence, 0 if none
find(s, c) ==
    LET hits == {i \in 1..Len(s) : Char(s, i) = c}
    IN  IF hits = {} THEN 0 ELSE CHOOSE i \in hits : \A j \in hits : i <= j

Whitespace == {" ", "\t", "\n", "\r"}

RECURSIVE trim_start(_)
trim_start(s) ==
    IF s # "" /\ Head(s) \in Whitespace THEN trim_start(Tail(s)) ELSE s

RECURSIVE trim_end(_)
trim_end(s) ==
    IF s # "" /\ Char(s, Len(s)) \in Whitespace
    THEN trim_end(Take(s, Len(s) - 1)) ELSE s

\* str::trim
\* a variant of trim that keeps the text as it is
trim_kept(s) == s
trim(s) == trim_end(trim_start(s))

DecDigits == <<"0", "1", "2", "3", "4", "5", "6", "7", "8", "9">>
HexLower == <<"a", "b", "c", "d", "e", "f">>
HexUpper == <<"A", "B", "C", "D", "E", "F">>

\* char::is_numeric, on the ASCII texts of the model
is_numeric == {DecDigits[i] : i \in 1..10}
\* char::is_ascii_hexdigit
is_ascii_hexdigit ==
    is_numeric \cup {HexLower[i] : i \in 1..6} \cup {HexUpper[i] : i \in 1..6}

DigitVal(c) ==
    IF c \in is_numeric THEN (CHOOSE i \in 1..10 : DecDigits[i] = c) - 1
    ELSE IF c \in {HexLower[i] : i \in 1..6}
         THEN (CHOOSE i \in 1..6 : HexLower[i] = c) + 9
         ELSE (CHOOSE i \in 1..6 : HexUpper[i] = c) + 9

\* the number a digit string denotes in the given radix (unbounded)
RECURSIVE digits_value(_, _)
digits_value(s, radix) ==
    IF s = "" THEN 0
    ELSE digits_value(Take(s, Len(s) - 1), radix) * radix
         + DigitVal(Char(s, Len(s)))

\* the decimal text of a natural number, as `{}` formats it
RECURSIVE to_dec(_)
to_dec(n) ==
    IF n < 10 THEN DecDigits[n + 1]
    ELSE to_dec(n \div 10) \o DecDigits[(n % 10) + 1]

\* a variant of to_dec03 that pads nothing
to_dec03_unpadded(n) == to_dec(n)
\* `{:03}`: at least three digits, zero padded
to_dec03(n) ==
    IF n < 10 THEN "00" \o to_dec(n)
    ELSE IF n < 100 THEN "0" \o to_dec(n) ELSE to_dec(n)

U16_MAX == 65535
U16_MODULUS == 65536

(***************************************************************************)
(* Outcomes of a decode: Result<T> together with where the cursor is left. *)
(* A panic is not a Result: it unwinds the calling task.                   *)
(***************************************************************************)
Ok(v, rest) == [ok |-> TRUE, val |-> v, rest |-> rest]
Err(rest) == [ok |-> FALSE, val |-> "ResponseDecoding", rest |-> rest]
Panic(rest) == [ok |-> FALSE, val |-> "panic", rest |-> rest]

(***************************************************************************)
(* Parsing primitives (src/src/lib.rs)                                     *)
(***************************************************************************)
match_literal(input, literal) ==
    IF starts_with(input, literal)
    THEN Ok("()", Drop(input, Len(literal)))
    ELSE Err(input)

read_until(input, delimiter) ==
    LET index == find(input, delimiter)
    IN  IF index # 0
        THEN Ok(Take(input, index - 1), Drop(input, index))
        ELSE Err(input)

\* never fails: the maximal prefix whose characters are all in `pattern`
read_while(input, pattern) ==
    LET rejects == {i \in 1..Len(input) : Char(input, i) \notin pattern}
        split == IF rejects = {} THEN Len(input)
                 ELSE (CHOOSE i \in rejects : \A j \in rejects : i <= j) - 1
    IN  Ok(Take(input, split), Drop(input, split))

\* a variant of read_exact that drops what is left when it fails
read_exact_consuming(input, len) ==
    IF Len(input) < len THEN Err("")
    ELSE Ok(Take(input, len), Drop(input, len))
read_exact(input, len) ==
    IF Len(input) < len THEN Err(input)
    ELSE Ok(Take(input, len), Drop(input, len))

read_all(input) == read_until(input, "\n")

check_empty(input) == IF input = "" THEN Ok("()", input) ELSE Err(input)

\* the `?` operator: an Err (and an unwinding panic) leaves the function with
\* the cursor where the failed step left it, an Ok value goes on to `next`
and_then(r, next(_)) == IF r.ok THEN next(r) ELSE r

(***************************************************************************)
(* impl ScpiDeserialize for u16                                            *)
(***************************************************************************)
\* str::parse::<u16>, with the cursor where read_while left it
u16_parse(digits, rest) ==
    IF digits # "" /\ digits_value(digits, 10) <= U16_MAX
    THEN Ok(digits_value(digits, 10), rest)
    ELSE Err(rest)

u16_deserialize(input) ==
    and_then(read_while(input, is_numeric),
             LAMBDA digits : u16_parse(digits.val, digits.rest))

(***************************************************************************)
(* scpi_enum!: the declared {variant => literal} tables, in declared order *)
(***************************************************************************)
V(variant, literal) == [variant |-> variant, literal |-> literal]

MemorySlot ==
    <<V("One", "1"), V("Two", "2"), V("Three", "3"), V("Four", "4"),
      V("Five", "5")>>
Channel == <<V("One", "CH1"), V("Two", "CH2")>>
Quantity ==
    <<V("Current", "CURRent"), V("Voltage", "VOLTage"), V("Power", "POWEr")>>
State == <<V("On", "ON"), V("Off", "OFF")>>
OutputChannel == <<V("One", "CH1"), V("Two", "CH2"), V("Three", "CH3")>>
OperationMode ==
    <<V("Independent", "0"), V("Series", "1"), V("Parallel", "2")>>
TimingGroup ==
    <<V("One", "1"), V("Two", "2"), V("Three", "3"), V("Four", "4"),
      V("Five", "5")>>

Variants(table) == {table[i].variant : i \in 1..Len(table)}

\* the generated deserialize: the literals are tried in declared order with
\* match_literal, the first that matches wins
RECURSIVE enum_deserialize_from(_, _, _)
enum_deserialize_from(table, i, input) ==
    IF i > Len(table) THEN Err(input)
    ELSE IF match_literal(input, table[i].literal).ok
         THEN Ok(table[i].variant, Drop(input, Len(table[i].literal)))
         ELSE enum_deserialize_from(table, i + 1, input)

\* a variant of enum_deserialize that never tries the first declared literal
enum_deserialize_skipping(table, input) ==
    enum_deserialize_from(table, 2, input)
enum_deserialize(table, input) == enum_deserialize_from(table, 1, input)

\* a variant of enum_serialize that writes the first declared literal for
\* every value
enum_serialize_first(table, variant) == table[1].literal
\* the generated serialize
enum_serialize(table, variant) ==
    table[CHOOSE i \in 1..Len(table) : table[i].variant = variant].literal

\* impl From<Channel> for OutputChannel
OutputChannel_from(channel) == channel

(***************************************************************************)
(* Reading: a count of thousandths held in a u16                           *)
(***************************************************************************)
Reading_serialize(millis) ==
    LET whole == millis \div 1000
        frac == millis % 1000
    IN  to_dec(whole) \o "." \o to_dec03(frac)

\* `whole_part * 1000 + frac_part` is u16 arithmetic: out of range it panics
\* when the build checks overflow and wraps when it does not
Reading_from_parts(sum, rest) ==
    IF sum <= U16_MAX THEN Ok(sum, rest)
    ELSE IF overflow_checks THEN Panic(rest)
    ELSE Ok(sum % U16_MODULUS, rest)

Reading_deserialize(input) ==
    and_then(u16_deserialize(input), LAMBDA whole_part :
    and_then(match_literal(whole_part.rest, "."), LAMBDA dot :
    and_then(u16_deserialize(dot.rest), LAMBDA frac_part :
        Reading_from_parts(whole_part.val * 1000 + frac_part.val,
                           frac_part.rest))))

\* impl From<Reading> for f32: the count of thousandths divided by 1000.0,
\* kept as the exact quotient
Reading_into_f32(millis) == [numerator |-> millis, denominator |-> 1000]

\* impl ScpiDeserialize for TimeInterval: the u16 is wrapped as it is
TimeInterval_deserialize(input) == u16_deserialize(input)

TimeInterval_MAX == 10000

\* impl From<u16> for TimeInterval: panics above the accepted range
TimeInterval_from(value) ==
    IF value > TimeInterval_MAX THEN Panic("") ELSE Ok(value, "")

(***************************************************************************)
(* Ipv4Addr                                                                *)
(***************************************************************************)
\* one octet of str::parse::<Ipv4Addr>: one to three decimal digits, no
\* leading zero, at most 255
ipv4_octet_parse(digits, rest) ==
    IF /\ Len(digits) \in 1..3
       /\ (Len(digits) > 1 => Head(digits) # "0")
       /\ digits_value(digits, 10) <= 255
    THEN Ok(digits_value(digits, 10), rest)
    ELSE Err(rest)

ipv4_octet(input) ==
    and_then(read_while(input, is_numeric),
             LAMBDA digits : ipv4_octet_parse(digits.val, digits.rest))

\* str::parse::<Ipv4Addr>: the whole text is four octets separated by dots
ipv4_parse(s) ==
    and_then(ipv4_octet(s), LAMBDA o1 :
    and_then(match_literal(o1.rest, "."), LAMBDA d1 :
    and_then(ipv4_octet(d1.rest), LAMBDA o2 :
    and_then(match_literal(o2.rest, "."), LAMBDA d2 :
    and_then(ipv4_octet(d2.rest), LAMBDA o3 :
    and_then(match_literal(o3.rest, "."), LAMBDA d3 :
    and_then(ipv4_octet(d3.rest), LAMBDA o4 :
        IF o4.rest = ""
        THEN Ok(<<o1.val, o2.val, o3.val, o4.val>>, "")
        ELSE Err(o4.rest))))))))

Ipv4Addr_serialize(addr) ==
    to_dec(addr[1]) \o "." \o to_dec(addr[2]) \o "." \o to_dec(addr[3])
        \o "." \o to_dec(addr[4])

\* the address is parsed from the whole trimmed remainder first, then the
\* cursor is advanced over digits and dots
\* `.map_err(..)?` on the parse: the cursor has not moved yet
ipv4_parse_or_err(input) ==
    IF ipv4_parse(trim(input)).ok
    THEN Ok(ipv4_parse(trim(input)).val, input)
    ELSE Err(input)

Ipv4Addr_deserialize(input) ==
    and_then(ipv4_parse_or_err(input), LAMBDA address :
    and_then(read_while(input, is_numeric), LAMBDA n1 :
    and_then(match_literal(n1.rest, "."), LAMBDA d1 :
    and_then(read_while(d1.rest, is_numeric), LAMBDA n2 :
    and_then(match_literal(n2.rest, "."), LAMBDA d2 :
    and_then(read_while(d2.rest, is_numeric), LAMBDA n3 :
    and_then(match_literal(n3.rest, "."), LAMBDA d3 :
    and_then(read_while(d3.rest, is_numeric), LAMBDA n4 :
        Ok(address.val, n4.rest)))))))))

(***************************************************************************)
(* Response types (src/src/commands.rs)                                    *)
(***************************************************************************)
\* impl ScpiDeserialize for EmptyResponse: consumes nothing
EmptyResponse_deserialize(input) == Ok("()", input)

IdentityResponse_deserialize(input) ==
    and_then(read_until(input, ","), LAMBDA company_name :
    and_then(read_until(company_name.rest, ","), LAMBDA model_number :
    and_then(read_until(model_number.rest, ","), LAMBDA serial_number :
    and_then(read_until(serial_number.rest, ","), LAMBDA software_version :
    and_then(read_until(software_version.rest, "\n"),
             LAMBDA hardware_version :
        Ok([company_name |-> trim(company_name.val),
            model_number |-> trim(model_number.val),
            serial_number |-> trim(serial_number.val),
            software_version |-> trim(software_version.val),
            hardware_version |-> trim(hardware_version.val)],
           hardware_version.rest))))))

GetInstrumentResponse_deserialize(input) == enum_deserialize(Channel, input)

\* MeasureResponse and GetLimitResponse have the same body
MeasureResponse_deserialize(input) ==
    and_then(Reading_deserialize(input), LAMBDA value :
    and_then(match_literal(value.rest, "\n"), LAMBDA nl :
        Ok(value.val, nl.rest)))

GetLimitResponse_deserialize(input) == MeasureResponse_deserialize(input)

GetTimingParametersResponse_deserialize(input) ==
    and_then(Reading_deserialize(input), LAMBDA voltage :
    and_then(match_literal(voltage.rest, ","), LAMBDA c1 :
    and_then(Reading_deserialize(c1.rest), LAMBDA current :
    and_then(match_literal(current.rest, ","), LAMBDA c2 :
    and_then(Reading_deserialize(c2.rest), LAMBDA time :
        Ok([voltage |-> voltage.val, current |-> current.val,
            time |-> time.val], time.rest))))))

SystemErrorResponse_deserialize(input) == read_all(input)

\* `version: input.to_string()`: the whole remainder is copied and the
\* cursor is not advanced
SystemVersionResponse_deserialize(input) == Ok(input, input)

\* u16::from_str_radix(.., 16), with the cursor where read_while left it
u16_from_str_radix16(digits, rest) ==
    IF digits # "" /\ digits_value(digits, 16) <= U16_MAX
    THEN Ok(digits_value(digits, 16), rest)
    ELSE Err(rest)

SystemStatusResponse_deserialize(input) ==
    and_then(match_literal(input, "0x"), LAMBDA prefix :
    and_then(read_while(prefix.rest, is_ascii_hexdigit), LAMBDA hex :
    and_then(u16_from_str_radix16(hex.val, hex.rest), LAMBDA value :
    and_then(match_literal(value.rest, "\n"), LAMBDA nl :
        Ok(value.val, nl.rest)))))

\* GetIpAddressResponse, GetSubnetMaskResponse and GetGatewayResponse have
\* the same body
GetIpAddressResponse_deserialize(input) ==
    and_then(Ipv4Addr_deserialize(input), LAMBDA address :
    and_then(match_literal(address.rest, "\n"), LAMBDA nl :
        Ok(address.val, nl.rest)))

GetSubnetMaskResponse_deserialize(input) ==
    GetIpAddressResponse_deserialize(input)

GetGatewayResponse_deserialize(input) == GetIpAddressResponse_deserialize(input)

GetDhcpResponse_deserialize(input) ==
    and_then(match_literal(input, "DHCP:"), LAMBDA tag :
    and_then(enum_deserialize(State, tag.rest), LAMBDA state :
    and_then(match_literal(state.rest, "\n"), LAMBDA nl :
        Ok(state.val, nl.rest))))

EnumTypes ==
    {"MemorySlot", "Channel", "Quantity", "State", "OutputChannel",
     "OperationMode", "TimingGroup"}

EnumTable(type) ==
    CASE type = "MemorySlot" -> MemorySlot
      [] type = "Channel" -> Channel
      [] type = "Quantity" -> Quantity
      [] type = "State" -> State
      [] type = "OutputChannel" -> OutputChannel
      [] type = "OperationMode" -> OperationMode
      [] type = "TimingGroup" -> TimingGroup

ResponseTypes ==
    {"EmptyResponse", "IdentityResponse", "GetInstrumentResponse",
     "MeasureResponse", "GetLimitResponse", "GetTimingParametersResponse",
     "SystemErrorResponse", "SystemVersionResponse", "SystemStatusResponse",
     "GetIpAddressResponse", "GetSubnetMaskResponse", "GetGatewayResponse",
     "GetDhcpResponse"}

ValueTypes == {"u16", "Reading", "TimeInterval", "Ipv4Addr"} \cup EnumTypes

\* <T as ScpiDeserialize>::deserialize
deserialize(type, input) ==
    CASE type = "u16" -> u16_deserialize(input)
      [] type = "Reading" -> Reading_deserialize(input)
      [] type = "TimeInterval" -> TimeInterval_deserialize(input)
      [] type = "Ipv4Addr" -> Ipv4Addr_deserialize(input)
      [] type \in EnumTypes -> enum_deserialize(EnumTable(type), input)
      [] type = "EmptyResponse" -> EmptyResponse_deserialize(input)
      [] type = "IdentityResponse" -> IdentityResponse_deserialize(input)
      [] type = "GetInstrumentResponse" ->
            GetInstrumentResponse_deserialize(input)
      [] type = "MeasureResponse" -> MeasureResponse_deserialize(input)
      [] type = "GetLimitResponse" -> GetLimitResponse_deserialize(input)
      [] type = "GetTimingParametersResponse" ->
            GetTimingParametersResponse_deserialize(input)
      [] type = "SystemErrorResponse" -> SystemErrorResponse_deserialize(input)
      [] type = "SystemVersionResponse" ->
            SystemVersionResponse_deserialize(input)
      [] type = "SystemStatusResponse" ->
            SystemStatusResponse_deserialize(input)
      [] type = "GetIpAddressResponse" ->
            GetIpAddressResponse_deserialize(input)
      [] type = "GetSubnetMaskResponse" ->
            GetSubnetMaskResponse_deserialize(input)
      [] type = "GetGatewayResponse" -> GetGatewayResponse_deserialize(input)
      [] type = "GetDhcpResponse" -> GetDhcpResponse_deserialize(input)

(***************************************************************************)
(* SystemStatusResponse::decode                                            *)
(***************************************************************************)
RECURSIVE pow2(_)
pow2(n) == IF n = 0 THEN 1 ELSE 2 * pow2(n - 1)

\* a variant of read_bit that tests the bit above the one asked for
read_bit_above(value, bit) == (value \div pow2(bit + 1)) % 2 = 1
read_bit(value, bit) == (value \div pow2(bit)) % 2 = 1

State_from(b) == IF b THEN "On" ELSE "Off"
ChannelMode_from(b) == IF b THEN "ConstantCurrent" ELSE "ConstantVoltage"
DisplayMode_from(b) == IF b THEN "WaveformDisplay" ELSE "DigitalDisplay"

\* `self.value & 0b1100`; the pattern 00 panics
decode_operation_mode(value) ==
    LET bits == (value \div 4) % 4
    IN  CASE bits = 1 -> "Independent"
          [] bits = 2 -> "Parallel"
          [] bits = 3 -> "Series"
          [] bits = 0 -> "panic"

SystemStatusResponse_decode(value) ==
    [operation_mode |-> decode_operation_mode(value),
     channel_one |-> [mode |-> ChannelMode_from(read_bit(value, 0)),
                      output |-> State_from(read_bit(value, 4)),
                      timer |-> State_from(read_bit(value, 6)),
                      display |-> DisplayMode_from(read_bit(value, 8))],
     channel_two |-> [mode |-> ChannelMode_from(read_bit(value, 1)),
                      output |-> State_from(read_bit(value, 5)),
                      timer |-> State_from(read_bit(value, 7)),
                      display |-> DisplayMode_from(read_bit(value, 9))]]

\* SystemStatus::get
\* a variant of SystemStatus_get that hands out the other channel's record
SystemStatus_get_other(status, channel) ==
    IF channel = "One" THEN status.channel_two ELSE status.channel_one
SystemStatus_get(status, channel) ==
    IF channel = "One" THEN status.channel_one ELSE status.channel_two

(***************************************************************************)
(* Requests: impl_scpi_serialize! and impl_scpi_request!                   *)
(***************************************************************************)
\* impl ScpiSerialize for Option<T>, for a channel
\* a variant of Option_serialize that writes channel one for an absent value
Option_serialize_default(channel) ==
    enum_serialize(Channel, IF channel = "None" THEN "One" ELSE channel)
Option_serialize(channel) ==
    IF channel = "None" THEN "" ELSE enum_serialize(Channel, channel)

\* impl ScpiSerialize for LimitQuantity: through Quantity::from
LimitQuantity_serialize(quantity) == enum_serialize(Quantity, quantity)

\* impl ScpiSerialize for TimeInterval
TimeInterval_serialize(time) == to_dec(time)

serialize(request) ==
    LET type == request.type
    IN  CASE type = "IdentityRequest" -> "*IDN?"
          [] type = "SaveRequest" ->
                "*SAV " \o enum_serialize(MemorySlot, request.slot)
          [] type = "RecallRequest" ->
                "*RCL " \o enum_serialize(MemorySlot, request.slot)
          [] type = "GetInstrumentRequest" -> "INSTrument?"
          [] type = "MeasureRequest" ->
                "MEASure:" \o enum_serialize(Quantity, request.quantity)
                    \o "? " \o Option_serialize(request.channel)
          [] type = "SetLimitRequest" ->
                Option_serialize(request.channel)
                    \o (IF request.channel # "None" THEN ":" ELSE "")
                    \o LimitQuantity_serialize(request.quantity)
                    \o " " \o Reading_serialize(request.value)
          [] type = "GetLimitRequest" ->
                Option_serialize(request.channel)
                    \o (IF request.channel # "None" THEN ":" ELSE "")
                    \o LimitQuantity_serialize(request.quantity) \o "?"
          [] type = "SetOutputStateRequest" ->
                "OUTPut " \o enum_serialize(OutputChannel, request.channel)
                    \o "," \o enum_serialize(State, request.state)
          [] type = "SetOperationModeRequest" ->
                "OUTPut:TRACK " \o enum_serialize(OperationMode, request.mode)
          [] type = "WaveformDisplayRequest" ->
                "OUTPut:WAVE " \o enum_serialize(Channel, request.channel)
                    \o "," \o enum_serialize(State, request.state)
          [] type = "SetTimingParametersRequest" ->
                "TIMEr:SET " \o enum_serialize(Channel, request.channel)
                    \o "," \o enum_serialize(TimingGroup, request.group)
                    \o "," \o Reading_serialize(request.voltage)
                    \o "," \o Reading_serialize(request.current)
                    \o "," \o TimeInterval_serialize(request.time)
          [] type = "GetTimingParametersRequest" ->
                "TIMEr:SET? " \o enum_serialize(Channel, request.channel)
                    \o "," \o enum_serialize(TimingGroup, request.group)
          [] type = "SetTimerStateRequest" ->
                "TIMEr " \o enum_serialize(Channel, request.channel)
                    \o "," \o enum_serialize(State, request.state)
          [] type = "SystemErrorRequest" -> "SYSTem:ERRor?"
          [] type = "SystemVersionRequest" -> "SYSTem:VERSion?"
          [] type = "SystemStatusRequest" -> "SYSTem:STATus?"
          [] type = "SetIpAddressRequest" ->
                "IPaddr " \o Ipv4Addr_serialize(request.addr)
          [] type = "GetIpAddressRequest" -> "IPaddr?"
          [] type = "SetSubnetMaskRequest" ->
                "MASKaddr " \o Ipv4Addr_serialize(request.mask)
          [] type = "GetSubnetMaskRequest" -> "MASKaddr?"
          [] type = "SetGatewayRequest" ->
                "GATEaddr " \o Ipv4Addr_serialize(request.gateway)
          [] type = "GetGatewayRequest" -> "GATEaddr?"
          [] type = "SetDhcpRequest" ->
                "DHCP " \o enum_serialize(State, request.state)
          [] type = "GetDhcpRequest" -> "DHCP?"

\* impl_scpi_request!(Request, Response): the response type bound to a request
Response(type) ==
    CASE type = "IdentityRequest" -> "IdentityResponse"
      [] type = "GetInstrumentRequest" -> "GetInstrumentResponse"
      [] type = "MeasureRequest" -> "MeasureResponse"
      [] type = "GetLimitRequest" -> "GetLimitResponse"
      [] type = "GetTimingParametersRequest" -> "GetTimingParametersResponse"
      [] type = "SystemErrorRequest" -> "SystemErrorResponse"
      [] type = "SystemVersionRequest" -> "SystemVersionResponse"
      [] type = "SystemStatusRequest" -> "SystemStatusResponse"
      [] type = "GetIpAddressRequest" -> "GetIpAddressResponse"
      [] type = "GetSubnetMaskRequest" -> "GetSubnetMaskResponse"
      [] type = "GetGatewayRequest" -> "GetGatewayResponse"
      [] type = "GetDhcpRequest" -> "GetDhcpResponse"
      [] OTHER -> "EmptyResponse"

(***************************************************************************)
(* The session's methods (src/src/spd3303x.rs) and the arguments callers   *)
(* pass in this model                                                      *)
(***************************************************************************)
Channels == Variants(Channel)
States == Variants(State)
\* the arguments callers pass in this model: both channels and both states
\* where the channel views differ by them, one representative value elsewhere
ChannelArgs == {"Two"}
OutputChannelArgs == {"One", "Three"}
\* the channel of the manual's example query, TIMEr:SET? CH1,2
TimingChannelArgs == {"One"}
StateArgs == {"On"}
QuantityArgs == {"Voltage"}
LimitQuantities == {"Current"}
SlotArgs == {"Five"}
ModeArgs == {"Parallel"}
GroupArgs == {"Two"}
ReadingArgs == {1337}
\* the TimeInterval values a caller can hold: converted from an integer
\* with From<u16>, or decoded from a text with TimeInterval::deserialize
TimeSources == {2, TimeInterval_MAX + 1}
TimeTexts == {"2", "10001"}
TimeArgs ==
    {TimeInterval_from(value).val :
        value \in {x \in TimeSources : TimeInterval_from(x).ok}}
    \cup {TimeInterval_deserialize(text).val :
        text \in {x \in TimeTexts : TimeInterval_deserialize(x).ok}}
AddrArgs == {<<10, 11, 13, 214>>}
SerialArgs == {"SPD00001130025", "SPD3XJGQ805993"}

SessionCalls ==
    {[method |-> m] :
        m \in {"get_identity", "get_selected_channel", "get_error",
               "get_version", "get_status", "get_ip_address",
               "get_subnet_mask", "get_gateway", "get_dhcp"}}
    \cup {[method |-> "verify_serial_number", serial_number |-> sn] :
            sn \in SerialArgs}
    \cup {[method |-> m, slot |-> sl] :
            m \in {"save", "recall"}, sl \in SlotArgs}
    \cup {[method |-> "measure", channel |-> ch, quantity |-> q] :
            ch \in Channels, q \in QuantityArgs}
    \cup {[method |-> "set_limit", channel |-> ch, quantity |-> q,
           value |-> v] :
            ch \in ChannelArgs, q \in LimitQuantities, v \in ReadingArgs}
    \cup {[method |-> "get_limit", channel |-> ch, quantity |-> q] :
            ch \in ChannelArgs, q \in LimitQuantities}
    \cup {[method |-> "set_output", channel |-> ch, state |-> st] :
            ch \in OutputChannelArgs, st \in StateArgs}
    \cup {[method |-> "set_output_mode", mode |-> md] : md \in ModeArgs}
    \cup {[method |-> m, channel |-> ch, state |-> st] :
            m \in {"set_waveform_display", "set_timer"},
            ch \in ChannelArgs, st \in StateArgs}
    \cup {[method |-> "set_timing_parameters", channel |-> ch, group |-> g,
           voltage |-> v, current |-> v, time |-> ti] :
            ch \in ChannelArgs, g \in GroupArgs, v \in ReadingArgs,
            ti \in TimeArgs}
    \cup {[method |-> "get_timing_parameters", channel |-> ch, group |-> g] :
            ch \in TimingChannelArgs, g \in GroupArgs}
    \cup {[method |-> m, addr |-> a] :
            m \in {"set_ip_address", "set_subnet_mask", "set_gateway"},
            a \in AddrArgs}
    \cup {[method |-> "set_dhcp", state |-> st] : st \in StateArgs}
    \cup {[method |-> "get_output", channel |-> ch] : ch \in Channels}

\* what ChannelControl (channel One or Two) and FixedChannelControl (output
\* channel Three) delegate to the locked session
ChannelControlMethods ==
    {"measure", "set_limit", "get_limit", "set_output", "get_output",
     "set_waveform_display", "set_timing_parameters",
     "get_timing_parameters", "set_timer"}

IsViewCall(c) ==
    \/ c.method \in ChannelControlMethods /\ c.channel \in Channels
    \/ c.method = "set_output" /\ c.channel = "Three"

ViewCalls == {c \in SessionCalls : IsViewCall(c)}

\* the owner of the session keeps every view it got from into_channels; the
\* other task has been handed the view of channel one and the fixed view
CallsOf(t) ==
    IF t = "t1" THEN SessionCalls
    ELSE {c \in ViewCalls : c.channel \in {"One", "Three"}}

\* the calls of test_output, on either channel view and with either state
OutputCalls ==
    {[method |-> "set_output", channel |-> ch, state |-> st] :
        ch \in Variants(OutputChannel), st \in States}
    \cup {[method |-> "get_output", channel |-> ch] : ch \in Channels}

\* the request value each method builds
Request(c) ==
    LET m == c.method
    IN  CASE m \in {"get_identity", "verify_serial_number"} ->
                [type |-> "IdentityRequest"]
          [] m = "save" -> [type |-> "SaveRequest", slot |-> c.slot]
          [] m = "recall" -> [type |-> "RecallRequest", slot |-> c.slot]
          [] m = "get_selected_channel" -> [type |-> "GetInstrumentRequest"]
          [] m = "measure" ->
                [type |-> "MeasureRequest", quantity |-> c.quantity,
                 channel |-> c.channel]
          [] m = "set_limit" ->
                [type |-> "SetLimitRequest", quantity |-> c.quantity,
                 value |-> c.value, channel |-> c.channel]
          [] m = "get_limit" ->
                [type |-> "GetLimitRequest", quantity |-> c.quantity,
                 channel |-> c.channel]
          [] m = "set_output" ->
                [type |-> "SetOutputStateRequest", channel |-> c.channel,
                 state |-> c.state]
          [] m = "set_output_mode" ->
                [type |-> "SetOperationModeRequest", mode |-> c.mode]
          [] m = "set_waveform_display" ->
                [type |-> "WaveformDisplayRequest", channel |-> c.channel,
                 state |-> c.state]
          [] m = "set_timing_parameters" ->
                [type |-> "SetTimingParametersRequest",
                 channel |-> c.channel, group |-> c.group,
                 voltage |-> c.voltage, current |-> c.current,
                 time |-> c.time]
          [] m = "get_timing_parameters" ->
                [type |-> "GetTimingParametersRequest",
                 channel |-> c.channel, group |-> c.group]
          [] m = "set_timer" ->
                [type |-> "SetTimerStateRequest", channel |-> c.channel,
                 state |-> c.state]
          [] m = "get_error" -> [type |-> "SystemErrorRequest"]
          [] m = "get_version" -> [type |-> "SystemVersionRequest"]
          [] m \in {"get_status", "get_output"} ->
                [type |-> "SystemStatusRequest"]
          [] m = "set_ip_address" ->
                [type |-> "SetIpAddressRequest", addr |-> c.addr]
          [] m = "get_ip_address" -> [type |-> "GetIpAddressRequest"]
          [] m = "set_subnet_mask" ->
                [type |-> "SetSubnetMaskRequest", mask |-> c.addr]
          [] m = "get_subnet_mask" -> [type |-> "GetSubnetMaskRequest"]
          [] m = "set_gateway" ->
                [type |-> "SetGatewayRequest", gateway |-> c.addr]
          [] m = "get_gateway" -> [type |-> "GetGatewayRequest"]
          [] m = "set_dhcp" -> [type |-> "SetDhcpRequest", state |-> c.state]
          [] m = "get_dhcp" -> [type |-> "GetDhcpRequest"]

\* the methods that go through Spd3303x::send; the others go through execute
SendMethods ==
    {"save", "recall", "set_limit", "set_output", "set_output_mode",
     "set_waveform_display", "set_timing_parameters", "set_timer",
     "set_ip_address", "set_subnet_mask", "set_gateway", "set_dhcp"}

\* a variant in which send, like execute, goes on to read a response
reads_response_always(method) == TRUE

\* Spd3303x::send is send_raw alone; Spd3303x::execute goes on to read
reads_response(method) == method \notin SendMethods

\* a variant of send_raw that leaves out the `buffer.push('\n')`
send_raw_buffer_bare(request) == serialize(request)

\* send_raw: the encoded request and one newline, written by one write_all
send_raw_buffer(request) == serialize(request) \o "\n"

\* a variant of read_line that stops in front of the newline and leaves it
\* in the buffer
read_line_len_short(buffered) ==
    IF find(buffered, "\n") # 0 THEN find(buffered, "\n") - 1
    ELSE Len(buffered)

\* BufReader::read_line on the characters that have arrived: up to and
\* including the first newline, or everything at the end of the stream
read_line_len(buffered) ==
    IF find(buffered, "\n") # 0 THEN find(buffered, "\n") ELSE Len(buffered)

(***************************************************************************)
(* What a method returns: Result<T>, or a panic that unwinds the task      *)
(***************************************************************************)
RetOk(v) == [kind |-> "Ok", val |-> v]
RetErr(kind, v) == [kind |-> kind, val |-> v]
RetPanic == [kind |-> "panic", val |-> "panic"]
NoRet == [kind |-> "none", val |-> "none"]
NoCall == [method |-> "none"]
NoParse == [ok |-> FALSE, val |-> "none", rest |-> ""]

\* a variant of verify_serial_number that accepts every serial number
verify_serial_number_any(device_serial_number, serial_number) == RetOk("()")

\* verify_serial_number, after get_identity succeeded
verify_serial_number(device_serial_number, serial_number) ==
    IF device_serial_number = serial_number
    THEN RetOk("()")
    ELSE RetErr("SerialMismatch", device_serial_number)

\* what each method makes of the value execute returned
complete(c, value) ==
    LET m == c.method
    IN  CASE m = "verify_serial_number" ->
                verify_serial_number(value.serial_number, c.serial_number)
          [] m = "get_status" ->
                IF decode_operation_mode(value) = "panic" THEN RetPanic
                ELSE RetOk(SystemStatusResponse_decode(value))
          [] m = "get_output" ->
                IF decode_operation_mode(value) = "panic" THEN RetPanic
                ELSE RetOk(SystemStatus_get(SystemStatusResponse_decode(value),
                                            c.channel).output)
          [] m \in {"measure", "get_limit"} -> RetOk(Reading_into_f32(value))
          [] OTHER -> RetOk(value)

(***************************************************************************)
(* The device: it handles requests in arrival order, sends one line per    *)
(* query and nothing for a command.  The lines are the "Typical Return"    *)
(* texts of the manual excerpts quoted in src/src/commands.rs.             *)
(***************************************************************************)
\* a response value's wire form followed by exactly one newline
\* the status word as the device prints it: 0x and four hexadecimal digits
HexDigit(d) == IF d < 10 THEN DecDigits[d + 1] ELSE HexUpper[d - 9]
to_hex4(n) ==
    HexDigit((n \div 4096) % 16) \o HexDigit((n \div 256) % 16)
        \o HexDigit((n \div 16) % 16) \o HexDigit(n % 16)
StatusLine(word) == "0x" \o to_hex4(word) \o "\n"

\* the status words of a device in independent mode, both channels constant
\* voltage: 0x0004, 0x0014 (CH1 on), 0x0224 (CH2 on, CH2 waveform display),
\* 0x0034 (both on)
DeviceStatusWords == {4, 20, 548, 52}

\* the output state of the device is not known before a command has set it
NoOutput == [channel \in Channels |-> "Unknown"]

\* the device applies the command line it received: OUTPut CH1|CH2,ON|OFF
\* switches the output of channel 1 or 2, no other line changes it
ApplyCommand(output, buffer) ==
    CASE buffer = "OUTPut CH1,ON\n" -> [output EXCEPT !["One"] = "On"]
      [] buffer = "OUTPut CH1,OFF\n" -> [output EXCEPT !["One"] = "Off"]
      [] buffer = "OUTPut CH2,ON\n" -> [output EXCEPT !["Two"] = "On"]
      [] buffer = "OUTPut CH2,OFF\n" -> [output EXCEPT !["Two"] = "Off"]
      [] OTHER -> output

\* the word reports the output state of channel 1 in bit 4 and of channel 2
\* in bit 5
Reports(word, output) ==
    /\ output["One"] \in {"Unknown",
                          IF (word \div 16) % 2 = 1 THEN "On" ELSE "Off"}
    /\ output["Two"] \in {"Unknown",
                          IF (word \div 32) % 2 = 1 THEN "On" ELSE "Off"}

\* set_output on channel 1 or 2 has returned Ok
SetOutputDone(last, c) ==
    IF c.method = "set_output" /\ c.channel \in Channels
    THEN [last EXCEPT ![c.channel] = c.state]
    ELSE last
WireForms(type) ==
    CASE type = "IdentityRequest" ->
            {"Siglent Technologies, SPD3303X, SPD00001130025, 1.01.01.01.02,V3.0\n"}
      [] type = "GetInstrumentRequest" -> {"CH1\n", "CH2\n"}
      [] type = "MeasureRequest" -> {"30.000\n"}
      [] type = "GetLimitRequest" -> {"0.500\n"}
      [] type = "GetTimingParametersRequest" -> {"3.000,0.500,2.000\n"}
      [] type = "SystemErrorRequest" -> {"0 No Error\n"}
      [] type = "SystemVersionRequest" -> {"1.01.01.01.02\n"}
      [] type = "SystemStatusRequest" ->
            {StatusLine(word) : word \in DeviceStatusWords}
      [] type = "GetIpAddressRequest" -> {"10.11.13.214\n"}
      [] type = "GetSubnetMaskRequest" -> {"255.255.255.0\n"}
      [] type = "GetGatewayRequest" -> {"10.11.13.1\n"}
      [] type = "GetDhcpRequest" -> {"DHCP:ON\n", "DHCP:OFF\n"}
      [] OTHER -> {}

\* other lines a device may send: not the wire form of a value of the
\* response type, or one the decoder takes another way
OtherLines(type) ==
    CASE type = "MeasureRequest" -> {"66.000\n", "ERR\n"}
      [] type = "GetTimingParametersRequest" -> {"3,0.5,2\n"}
      [] type = "SystemStatusRequest" -> {"0x0000\n", "ERR\n"}
      [] type = "SystemErrorRequest" -> {}
      [] type = "SystemVersionRequest" -> {}
      [] OTHER -> {"ERR\n"}

Replies(type) ==
    IF WireForms(type) = {} THEN {} ELSE WireForms(type) \cup OtherLines(type)

\* what the device may answer to a query it has received: a status word
\* agrees with the output state the device was in when the query arrived
DeviceReplies(entry) ==
    IF entry.request.type = "SystemStatusRequest"
    THEN {StatusLine(word) :
            word \in {x \in DeviceStatusWords : Reports(x, entry.output)}}
         \cup OtherLines(entry.request.type)
    ELSE Replies(entry.request.type)

(***************************************************************************)
(* The session state machine                                               *)
(***************************************************************************)
Tasks == {"t1", "t2"}
Owner == "t1"
MaxCalls == 3

codec_vars == <<c_type, c_value, c_input, c_out, c_pc>>
task_vars == <<pc, call, id, ret, ops, written, line, line_tags, parsed>>
session_vars == <<shared, lock, task_vars, calls, last_output>>
transport_vars == <<stream, dev_in, dev_output, rx, rx_tags>>
connect_vars == <<lookup, k_pc, k_index, k_sockets, k_attempts, k_ret>>
vars ==
    <<overflow_checks, codec_vars, session_vars, transport_vars, connect_vars>>

NoValue == [given |-> FALSE]
Value(v) == [given |-> TRUE, v |-> v]

CodecIdle ==
    /\ c_type = "none" /\ c_value = NoValue /\ c_input = ""
    /\ c_out = NoParse /\ c_pc = "off"

ConnectIdle ==
    /\ lookup = [ok |-> FALSE, addresses |-> <<>>]
    /\ k_pc = "off"
    /\ k_index = 0
    /\ k_sockets = 0
    /\ k_attempts = <<>>
    /\ k_ret = NoRet

SessionInit ==
    /\ shared = FALSE
    /\ lock = "free"
    /\ pc = [t \in Tasks |-> "idle"]
    /\ call = [t \in Tasks |-> NoCall]
    /\ id = [t \in Tasks |-> 0]
    /\ ret = [t \in Tasks |-> NoRet]
    /\ ops = [t \in Tasks |-> <<>>]
    /\ written = [t \in Tasks |-> ""]
    /\ line = [t \in Tasks |-> ""]
    /\ line_tags = [t \in Tasks |-> <<>>]
    /\ parsed = [t \in Tasks |-> NoParse]
    /\ calls = 0
    /\ stream = "open"
    /\ dev_in = <<>>
    /\ dev_output = NoOutput
    /\ last_output = [channel \in Channels |-> "None"]
    /\ rx = ""
    /\ rx_tags = <<>>

Init ==
    /\ overflow_checks \in BOOLEAN
    /\ CodecIdle
    /\ ConnectIdle
    /\ SessionInit

\* the device receives a request: a command has no output, so only a query
\* is kept until the device has answered it
Receive(queue, n, request, output) ==
    IF Replies(request.type) = {} THEN queue
    ELSE IF request.type = "SystemStatusRequest"
         THEN Append(queue, [id |-> n, request |-> request,
                             output |-> output])
         ELSE Append(queue, [id |-> n, request |-> request])

\* a variant of io_fails under which no write and no read reports an error
io_fails_never(transport) == FALSE

\* `write_all(..).await?` and `read_line(..).await?` return Err on a broken
\* connection
io_fails(transport) == transport = "failed"
\* a variant of read_line that gives up waiting and returns what has arrived
read_line_ready_timeout(buffer, transport) == TRUE

\* AsyncBufReadExt::read_line resolves once the buffer holds a newline or the
\* stream has ended; there is no deadline around it
read_line_ready(buffer, transport) ==
    find(buffer, "\n") # 0 \/ transport = "closed"
\* a variant of the lock that is granted while another guard is alive
lock_acquirable_always(holder) == TRUE

\* tokio's Mutex::lock completes only when no guard is alive
lock_acquirable(holder) == holder = "free"

\* the call leaves the method: the value is handed to the caller and the
\* MutexGuard of a channel view, if any, is dropped
Leave(t, r) ==
    /\ pc' = [pc EXCEPT ![t] = IF r.kind = "panic" THEN "panicked" ELSE "done"]
    /\ ret' = [ret EXCEPT ![t] = r]
    /\ lock' = IF lock = t THEN "free" ELSE lock

\* a caller starts a method: directly on the session it owns, or on a
\* channel view once into_channels has consumed the session
Call(t, c) ==
    /\ calls < MaxCalls
    /\ pc[t] = "idle"
    /\ IF shared THEN IsViewCall(c) ELSE t = Owner
    /\ pc' = [pc EXCEPT ![t] = IF shared THEN "lock" ELSE "send_raw"]
    /\ call' = [call EXCEPT ![t] = c]
    /\ calls' = calls + 1
    /\ id' = [id EXCEPT ![t] = calls + 1]
    /\ UNCHANGED <<overflow_checks, codec_vars, connect_vars, shared, last_output, lock, ret, ops,
                   written, line, line_tags, parsed, transport_vars>>

\* Spd3303x::into_channels
IntoChannels ==
    /\ ~shared
    /\ pc[Owner] = "idle"
    /\ shared' = TRUE
    /\ UNCHANGED <<overflow_checks, codec_vars, connect_vars, lock, task_vars, calls, last_output,
                   transport_vars>>

\* `let mut spd = self.spd.lock().await;`
Lock(t) ==
    /\ pc[t] = "lock"
    /\ lock_acquirable(lock)
    /\ lock' = t
    /\ pc' = [pc EXCEPT ![t] = "send_raw"]
    /\ UNCHANGED <<overflow_checks, codec_vars, connect_vars, shared, last_output, call, id, ret, ops,
                   written, line, line_tags, parsed, calls, transport_vars>>

\* Spd3303x::send_raw, and the return of Spd3303x::send
SendRaw(t) ==
    /\ pc[t] = "send_raw"
    /\ IF io_fails(stream)
       THEN /\ Leave(t, RetErr("IoError", "write"))
            /\ UNCHANGED <<ops, written, dev_in, dev_output, last_output>>
       ELSE /\ written' = [written EXCEPT
                              ![t] = send_raw_buffer(Request(call[t]))]
            /\ ops' = [ops EXCEPT ![t] = Append(@, "write")]
            /\ dev_in' = IF stream = "open"
                         THEN Receive(dev_in, id[t], Request(call[t]),
                                      dev_output)
                         ELSE dev_in
            /\ dev_output' = IF stream = "open"
                             THEN ApplyCommand(dev_output,
                                  send_raw_buffer(Request(call[t])))
                             ELSE dev_output
            /\ IF reads_response(call[t].method)
               THEN /\ pc' = [pc EXCEPT ![t] = "read_line"]
                    /\ UNCHANGED <<ret, lock, last_output>>
               ELSE /\ Leave(t, RetOk("()"))
                    /\ last_output' = SetOutputDone(last_output, call[t])
    /\ UNCHANGED <<overflow_checks, codec_vars, connect_vars, shared, call, id, line,
                   line_tags, parsed, calls, stream, rx, rx_tags>>

\* `self.reader.read_line(&mut line).await?`: completes when a newline has
\* arrived or the stream has ended, and waits otherwise
ReadLine(t) ==
    /\ pc[t] = "read_line"
    /\ IF io_fails(stream)
       THEN /\ Leave(t, RetErr("IoError", "read"))
            /\ UNCHANGED <<ops, line, line_tags, rx, rx_tags>>
       ELSE /\ read_line_ready(rx, stream)
            /\ LET n == read_line_len(rx)
               IN  /\ line' = [line EXCEPT ![t] = Take(rx, n)]
                   /\ line_tags' = [line_tags EXCEPT
                                       ![t] = SubSeq(rx_tags, 1, n)]
                   /\ rx' = Drop(rx, n)
                   /\ rx_tags' = SubSeq(rx_tags, n + 1, Len(rx_tags))
            /\ ops' = [ops EXCEPT ![t] = Append(@, "read")]
            /\ pc' = [pc EXCEPT ![t] = "deserialize"]
            /\ UNCHANGED <<ret, lock>>
    /\ UNCHANGED <<overflow_checks, codec_vars, connect_vars, shared, last_output, call, id, written,
                   parsed, calls, stream, dev_in, dev_output>>

\* `let response = Response::deserialize(&mut data)?;`
Deserialize(t) ==
    /\ pc[t] = "deserialize"
    /\ LET r == deserialize(Response(Request(call[t]).type), line[t])
       IN  /\ parsed' = [parsed EXCEPT ![t] = r]
           /\ ops' = [ops EXCEPT ![t] = Append(@, "decode")]
           /\ IF r.ok
              THEN /\ pc' = [pc EXCEPT ![t] = "check_empty"]
                   /\ UNCHANGED <<ret, lock>>
              ELSE IF r.val = "panic"
                   THEN Leave(t, RetPanic)
                   ELSE Leave(t, RetErr("ResponseDecoding", "deserialize"))
    /\ UNCHANGED <<overflow_checks, codec_vars, connect_vars, shared, last_output, call, id, written,
                   line, line_tags, calls, transport_vars>>

\* `check_empty(&mut data)?; Ok(response)`, and what the method does with it
CheckEmpty(t) ==
    /\ pc[t] = "check_empty"
    /\ ops' = [ops EXCEPT ![t] = Append(@, "check")]
    /\ IF check_empty(parsed[t].rest).ok
       THEN Leave(t, complete(call[t], parsed[t].val))
       ELSE Leave(t, RetErr("ResponseDecoding", "check_empty"))
    /\ UNCHANGED <<overflow_checks, codec_vars, connect_vars, shared, last_output, call, id, written,
                   line, line_tags, parsed, calls, transport_vars>>

\* the caller has taken the result and is ready for its next call
Resume(t) ==
    /\ pc[t] = "done"
    /\ pc' = [pc EXCEPT ![t] = "idle"]
    /\ call' = [call EXCEPT ![t] = NoCall]
    /\ ret' = [ret EXCEPT ![t] = NoRet]
    /\ ops' = [ops EXCEPT ![t] = <<>>]
    /\ written' = [written EXCEPT ![t] = ""]
    /\ line' = [line EXCEPT ![t] = ""]
    /\ line_tags' = [line_tags EXCEPT ![t] = <<>>]
    /\ parsed' = [parsed EXCEPT ![t] = NoParse]
    /\ id' = [id EXCEPT ![t] = 0]
    /\ UNCHANGED <<overflow_checks, codec_vars, connect_vars, shared, last_output, lock, calls,
                   transport_vars>>

\* the device answers the oldest query it has received with one line
DeviceHandle ==
    /\ stream = "open"
    /\ dev_in # <<>>
    /\ dev_in' = Tail(dev_in)
    /\ LET head == Head(dev_in)
       IN  \E text \in DeviceReplies(head) :
               /\ rx' = rx \o text
               /\ rx_tags' = rx_tags \o [i \in 1..Len(text) |-> head.id]
    /\ UNCHANGED <<overflow_checks, codec_vars, connect_vars, session_vars, stream,
                   dev_output>>

\* the device closes the connection: reads see the end of the stream
PeerClose ==
    /\ stream = "open"
    /\ stream' = "closed"
    /\ dev_in' = <<>>
    /\ UNCHANGED <<overflow_checks, codec_vars, connect_vars, session_vars, dev_output, rx,
                   rx_tags>>

\* the connection breaks: every later write and read is an I/O error
TransportFail ==
    /\ stream \in {"open", "closed"}
    /\ stream' = "failed"
    /\ UNCHANGED <<overflow_checks, codec_vars, connect_vars, session_vars, dev_in,
                   dev_output, rx, rx_tags>>

Next ==
    \/ \E t \in Tasks : \E c \in CallsOf(t) : Call(t, c)
    \/ IntoChannels
    \/ \E t \in Tasks : Lock(t)
    \/ \E t \in Tasks : SendRaw(t)
    \/ \E t \in Tasks : ReadLine(t)
    \/ \E t \in Tasks : Deserialize(t)
    \/ \E t \in Tasks : CheckEmpty(t)
    \/ \E t \in Tasks : Resume(t)
    \/ DeviceHandle
    \/ PeerClose
    \/ TransportFail

Spec == Init /\ [][Next]_vars

\* the session driven by set_output and get_output alone
NextOutput ==
    \/ \E t \in Tasks, c \in OutputCalls : Call(t, c)
    \/ IntoChannels
    \/ \E t \in Tasks : Lock(t)
    \/ \E t \in Tasks : SendRaw(t)
    \/ \E t \in Tasks : ReadLine(t)
    \/ \E t \in Tasks : Deserialize(t)
    \/ \E t \in Tasks : CheckEmpty(t)
    \/ \E t \in Tasks : Resume(t)
    \/ DeviceHandle
    \/ PeerClose
    \/ TransportFail

SpecOutput == Init /\ [][NextOutput]_vars

(***************************************************************************)
(* Properties of the session layer, checked under Spec                     *)
(***************************************************************************)
ExecuteSteps == <<"write", "read", "decode", "check">>

IsPrefix(a, b) == Len(a) <= Len(b) /\ a = SubSeq(b, 1, Len(a))

Count(seq, x) == Cardinality({i \in 1..Len(seq) : seq[i] = x})

Executing(t) == call[t] # NoCall /\ call[t].method \notin SendMethods
Sending(t) == call[t] # NoCall /\ call[t].method \in SendMethods

\* the method returned something other than a fault of execute
ExecuteSucceeded(t) == ret[t].kind \in {"Ok", "SerialMismatch"}

C2_WireFormReturnsValue ==
    \A t \in Tasks :
        /\ Executing(t)
        /\ pc[t] \in {"done", "panicked"}
        /\ line[t] \in WireForms(Request(call[t]).type)
        => ExecuteSucceeded(t)

InsideCall(t) ==
    pc[t] \in {"send_raw", "read_line", "deserialize", "check_empty"}

\* C4: once the session is shared by the channel views, a call is between
\* its write and its return only while it holds the lock, so the write, read
\* and decode of two calls never interleave, and at most one request is
\* waiting for its response.
C4_LockCoversCall ==
    /\ shared =>
          /\ \A t \in Tasks : InsideCall(t) => lock = t
          /\ \A t, u \in Tasks : InsideCall(t) /\ InsideCall(u) => t = u
          /\ lock # "free" => InsideCall(lock)
    /\ Len(dev_in) <= 1
    /\ Cardinality({i \in 1..Len(rx) : Char(rx, i) = "\n"}) <= 1

\* one view waits for its response while the other waits for the lock
C4_Witness ==
    /\ shared
    /\ \E t, u \in Tasks :
          /\ t # u
          /\ pc[t] = "read_line"
          /\ lock = t
          /\ pc[u] = "lock"
          /\ dev_in # <<>>

\* C5: with a device that sends one line per query, the line an execute
\* decodes is the reply to its own request, whole; no part of a reply is left
\* behind for a later call, also after calls that returned a decode fault.
C5_OwnReply ==
    /\ \A t \in Tasks :
          /\ \A i \in 1..Len(line_tags[t]) : line_tags[t][i] = id[t]
          /\ Executing(t) /\ Len(ops[t]) >= 2 /\ line[t] # "" =>
                line[t] \in Replies(Request(call[t]).type)
    /\ stream # "failed" =>
          \A i \in 1..Len(rx_tags) :
              \E t \in Tasks : pc[t] = "read_line" /\ id[t] = rx_tags[i]

\* a call has returned a decode fault and a later execute has read its line
C5_Witness ==
    \E t, u \in Tasks :
        /\ t # u
        /\ pc[u] = "done"
        /\ ret[u].kind = "ResponseDecoding"
        /\ id[u] < id[t]
        /\ pc[t] = "deserialize"
        /\ line[t] = "30.000\n"
        /\ \A i \in 1..Len(line_tags[t]) : line_tags[t][i] = id[t]

Verifying(t) == call[t] # NoCall /\ call[t].method = "verify_serial_number"

\* the serial number the identity line carries, if the line decodes
DeviceSerial(t) ==
    IF parsed[t].ok /\ parsed[t].rest = "" THEN parsed[t].val.serial_number
    ELSE "none"

\* C9: verify_serial_number issues one identity query; it returns Ok exactly
\* when the device's serial number equals the expected one, SerialMismatch
\* with the device's serial number when it differs, and the fault of the
\* identity query as it is.
C9_VerifySerialNumber ==
    \A t \in Tasks : Verifying(t) =>
        /\ written[t] \in {"", "*IDN?\n"}
        /\ Count(ops[t], "write") <= 1
        /\ pc[t] = "done" =>
              /\ ret[t].kind = "Ok" <=>
                    /\ ops[t] = ExecuteSteps
                    /\ DeviceSerial(t) = call[t].serial_number
              /\ ret[t].kind = "SerialMismatch" <=>
                    /\ ops[t] = ExecuteSteps
                    /\ DeviceSerial(t) \notin {"none", call[t].serial_number}
              /\ ret[t].kind = "SerialMismatch" => ret[t].val = DeviceSerial(t)
              /\ ret[t].kind = "IoError" <=> Count(ops[t], "read") = 0
              /\ ret[t].kind = "ResponseDecoding" <=>
                    /\ Count(ops[t], "read") = 1
                    /\ DeviceSerial(t) = "none"
              /\ line[t] =
                    "Siglent Technologies, SPD3303X, SPD00001130025, 1.01.01.01.02,V3.0\n"
                 => IF call[t].serial_number = "SPD00001130025"
                    THEN ret[t] = RetOk("()")
                    ELSE ret[t] = RetErr("SerialMismatch", "SPD00001130025")

\* a verification against another serial number has returned the device's
C9_Witness ==
    \E t \in Tasks :
        /\ Verifying(t)
        /\ pc[t] = "done"
        /\ call[t].serial_number = "SPD3XJGQ805993"
        /\ ret[t] = RetErr("SerialMismatch", "SPD00001130025")
        /\ Count(ops[t], "write") = 1


(***************************************************************************)
(* Spd3303x::connect_hostname                                              *)
(***************************************************************************)
MaxAddresses == 3

\* a candidate address and whether a TCP connection to it can be established
Candidate(i, connects) == [addr |-> i, connects |-> connects]

\* the address lists lookup_host may yield, the empty one included
AddressLists ==
    UNION {{[i \in 1..n |-> Candidate(i, f[i])] : f \in [1..n -> BOOLEAN]} :
              n \in 0..MaxAddresses}

ConnectInit ==
    /\ lookup \in {[ok |-> FALSE, addresses |-> <<>>]}
                    \cup {[ok |-> TRUE, addresses |-> a] : a \in AddressLists}
    /\ k_pc = "lookup"
    /\ k_index = 0
    /\ k_sockets = 0
    /\ k_attempts = <<>>
    /\ k_ret = NoRet

\* a variant of connect_hostname without the is_empty check
no_addresses_unchecked(addresses) == FALSE

\* `if addresses.is_empty()`
no_addresses(addresses) == addresses = <<>>

\* a variant of the loop that passes over every other candidate
next_candidate_skipping(index) == index + 2

\* `for addr in addresses`: the candidate after the one at `index`
next_candidate(index) == index + 1

KReturn(r) ==
    /\ k_pc' = "done"
    /\ k_ret' = r

\* `lookup_host(host).await?.collect()` and the is_empty check
Lookup ==
    /\ k_pc = "lookup"
    /\ IF ~lookup.ok
       THEN /\ KReturn(RetErr("IoError", "lookup_host"))
            /\ UNCHANGED k_index
       ELSE IF no_addresses(lookup.addresses)
       THEN /\ KReturn(RetErr("ConnectFailed",
                              "Lookup provided no addresses"))
            /\ UNCHANGED k_index
       ELSE /\ k_pc' = "loop"
            /\ k_index' = next_candidate(0)
            /\ UNCHANGED k_ret
    /\ UNCHANGED <<overflow_checks, codec_vars, session_vars,
                   transport_vars, lookup, k_sockets, k_attempts>>

\* the head of the for loop: the next candidate, or the Err after the loop
LoopHead ==
    /\ k_pc = "loop"
    /\ IF k_index > Len(lookup.addresses)
       THEN KReturn(RetErr("ConnectFailed",
                           "Could not connect on any address"))
       ELSE /\ k_pc' = "socket"
            /\ UNCHANGED k_ret
    /\ UNCHANGED <<overflow_checks, codec_vars, session_vars,
                   transport_vars, lookup, k_index, k_sockets, k_attempts>>

\* `let socket = TcpSocket::new_v4()?;`: the operating system may refuse a
\* socket, and the `?` then returns from connect_hostname
NewSocket ==
    /\ k_pc = "socket"
    /\ \/ /\ k_sockets' = k_sockets + 1
          /\ k_pc' = "connect"
          /\ UNCHANGED k_ret
       \/ /\ KReturn(RetErr("IoError", "TcpSocket::new_v4"))
          /\ UNCHANGED k_sockets
    /\ UNCHANGED <<overflow_checks, codec_vars, session_vars,
                   transport_vars, lookup, k_index, k_attempts>>

\* `socket.connect(addr).await` and the match on its result
Connect ==
    /\ k_pc = "connect"
    /\ k_attempts' = Append(k_attempts, lookup.addresses[k_index].addr)
    /\ IF lookup.addresses[k_index].connects
       THEN /\ KReturn(RetOk(lookup.addresses[k_index].addr))
            /\ UNCHANGED k_index
       ELSE /\ k_pc' = "loop"
            /\ k_index' = next_candidate(k_index)
            /\ UNCHANGED k_ret
    /\ UNCHANGED <<overflow_checks, codec_vars, session_vars,
                   transport_vars, lookup, k_sockets>>

InitConnect ==
    /\ overflow_checks = FALSE
    /\ CodecIdle
    /\ SessionInit
    /\ ConnectInit

NextConnect == Lookup \/ LoopHead \/ NewSocket \/ Connect

SpecConnect == InitConnect /\ [][NextConnect]_vars

(***************************************************************************)
(* Properties of connect_hostname, checked under SpecConnect               *)
(***************************************************************************)
Resolved == lookup.ok
Candidates == lookup.addresses
Returned == k_pc = "done"

\* the positions of the candidates that accept a connection
Connecting == {i \in 1..Len(Candidates) : Candidates[i].connects}

\* C6: when resolution yields no address, connect_hostname returns the
\* connect fault for an empty lookup at once: no socket is created and no
\* connection is attempted.
C6_EmptyLookupFailsAtOnce ==
    Resolved /\ Candidates = <<>> =>
        /\ k_attempts = <<>>
        /\ k_sockets = 0
        /\ k_pc \in {"lookup", "done"}
        /\ Returned =>
              k_ret = RetErr("ConnectFailed", "Lookup provided no addresses")

\* a lookup without addresses has been answered with the connect fault
C6_Witness ==
    /\ Resolved
    /\ Candidates = <<>>
    /\ Returned
    /\ k_ret.kind = "ConnectFailed"
    /\ k_attempts = <<>>

C8_FailsOnlyAfterAllCandidates ==
    Resolved /\ Candidates # <<>> /\ Returned /\ k_ret.kind # "Ok" =>
        /\ Len(k_attempts) = Len(Candidates)
        /\ Connecting = {}
        /\ k_ret.kind = "ConnectFailed"

(***************************************************************************)
(* The codec harness: one ScpiDeserialize impl applied to one input        *)
(***************************************************************************)
MaxLen == 3

Alphabet == {"1", "7", ".", ",", "x", "\n"}

RECURSIVE Texts(_)
Texts(n) ==
    IF n = 0 THEN {""}
    ELSE LET shorter == Texts(n - 1)
         IN  shorter \cup {s \o c : s \in shorter, c \in Alphabet}

\* the wire fixtures of the manual and texts at the edges of the grammars
FixtureTexts ==
    {"30.000\n", "0.500\n", "3,0.5,2\n", "66.000", "65.535", "70000",
     "12x", "1.5", "CH1\n", "CH2", "CH3", "ON", "OFF\n", "0x0224\n",
     "0x0000\n", "DHCP:ON\n", "DHCP:ONx", "10.11.13.214\n", " 10.11.13.214",
     "10.11.13.", "256.1.1.1", "10001", "0 No Error\n",
     "Siglent Technologies, SPD3303X, SPD00001130025, 1.01.01.01.02,V3.0\n",
     "a,b,c,d", "ch2", "CH2x", "Off", "a,b,c,d,e\n", " a , b,c ,d, e \nx",
     "a,b,c,d\n", "a,b,c,d,e", "a,b\n,c,d,e\n", ",,,,\n",
     "a\n,b,c,d,e", " ,\t, , ,\r\n", "1234", "12,34", "12,34\nasdf",
     "17aF,x", "0.5", "1.50", "1.5000", "70000.1", "1.70000"}

CodecInputs == FixtureTexts \cup Texts(MaxLen)

DecodeTypes == ValueTypes \cup ResponseTypes

\* limit requests built directly, with and without the optional channel
LimitRequests ==
    {[type |-> "SetLimitRequest", quantity |-> q, value |-> v, channel |-> ch] :
        q \in {"Voltage", "Current"}, v \in {1000, 1337},
        ch \in {"None"} \cup Channels}
    \cup {[type |-> "GetLimitRequest", quantity |-> q, channel |-> ch] :
        q \in {"Voltage", "Current"}, ch \in {"None"} \cup Channels}

\* <T as ScpiSerialize>::serialize
encode(type, v) ==
    CASE type \in EnumTypes -> enum_serialize(EnumTable(type), v)
      [] type = "Reading" -> Reading_serialize(v)
      [] type = "Request" -> serialize(v)

\* the calls of the parsing primitives
PrimitiveCalls ==
    {[name |-> "match_literal", literal |-> literal] :
        literal \in {"1", "17", "7", ".", "1.", "\n", "x", ""}}
    \cup {[name |-> "read_until", delimiter |-> delimiter] :
        delimiter \in {",", "\n", "."}}
    \cup {[name |-> "read_all"]}
    \cup {[name |-> "read_exact", len |-> len] : len \in 0..(MaxLen + 1)}
    \cup {[name |-> "read_while", pattern |-> pattern] :
        pattern \in {"is_numeric", "is_ascii_hexdigit"}}

\* the predicate passed to read_while
Pattern(pattern) ==
    IF pattern = "is_numeric" THEN is_numeric ELSE is_ascii_hexdigit

\* the primitive applied to the cursor
primitive(c, input) ==
    CASE c.name = "match_literal" -> match_literal(input, c.literal)
      [] c.name = "read_until" -> read_until(input, c.delimiter)
      [] c.name = "read_all" -> read_all(input)
      [] c.name = "read_exact" -> read_exact(input, c.len)
      [] c.name = "read_while" -> read_while(input, Pattern(c.pattern))

InitCodec ==
    /\ overflow_checks \in BOOLEAN
    /\ SessionInit
    /\ ConnectIdle
    /\ c_out = NoParse
    /\ \/ /\ c_pc = "ready"
          /\ c_type \in DecodeTypes
          /\ c_value = NoValue
          /\ c_input \in CodecInputs
       \/ /\ c_pc = "encode"
          /\ c_input = ""
          /\ \/ \E type \in EnumTypes : \E v \in Variants(EnumTable(type)) :
                    c_type = type /\ c_value = Value(v)
             \/ \E millis \in 0..U16_MAX :
                    c_type = "Reading" /\ c_value = Value(millis)
             \/ \E request \in LimitRequests :
                    c_type = "Request" /\ c_value = Value(request)
       \/ /\ c_pc = "status"
          /\ c_input = ""
          /\ c_type = "SystemStatus"
          /\ \E value \in 0..U16_MAX : c_value = Value(value)
       \/ /\ c_pc = "parse"
          /\ c_type = "primitive"
          /\ c_input \in CodecInputs
          /\ \E c \in PrimitiveCalls : c_value = Value(c)

\* `value.serialize(&mut out)`: the text becomes the input of the decoder,
\* if the type has one
Encode ==
    /\ c_pc = "encode"
    /\ c_input' = encode(c_type, c_value.v)
    /\ c_pc' = IF c_type \in DecodeTypes THEN "ready" ELSE "encoded"
    /\ UNCHANGED <<overflow_checks, session_vars, transport_vars,
                   connect_vars, c_type, c_value, c_out>>

\* `T::deserialize(&mut input)`
Decode ==
    /\ c_pc = "ready"
    /\ c_out' = deserialize(c_type, c_input)
    /\ c_pc' = "done"
    /\ UNCHANGED <<overflow_checks, session_vars, transport_vars,
                   connect_vars, c_type, c_value, c_input>>

\* `SystemStatusResponse { value }.decode()`
DecodeStatus ==
    /\ c_pc = "status"
    /\ c_out' = IF decode_operation_mode(c_value.v) = "panic" THEN Panic("")
                ELSE Ok(SystemStatusResponse_decode(c_value.v), "")
    /\ c_pc' = "done"
    /\ UNCHANGED <<overflow_checks, session_vars, transport_vars,
                   connect_vars, c_type, c_value, c_input>>

\* one call of a parsing primitive on the cursor
Parse ==
    /\ c_pc \in {"parse", "parse2"}
    /\ c_out' = primitive(c_value.v, c_input)
    /\ c_pc' = IF c_pc = "parse" THEN "parsed" ELSE "parsed2"
    /\ UNCHANGED <<overflow_checks, session_vars, transport_vars,
                   connect_vars, c_type, c_value, c_input>>

\* the caller goes on with another primitive on the cursor the first call
\* left, whether that call succeeded or failed
ParseAgain ==
    /\ c_pc = "parsed"
    /\ c_input' = c_out.rest
    /\ \E c \in PrimitiveCalls :
           c_value' = [given |-> TRUE, v |-> c,
                       after |-> [name |-> c_value.v.name, ok |-> c_out.ok]]
    /\ c_pc' = "parse2"
    /\ UNCHANGED <<overflow_checks, session_vars, transport_vars,
                   connect_vars, c_type, c_out>>

NextCodec == Encode \/ Decode \/ DecodeStatus \/ Parse \/ ParseAgain

SpecCodec == InitCodec /\ [][NextCodec]_vars

(***************************************************************************)
(* Properties of the decoders, checked under SpecCodec                     *)
(***************************************************************************)
Decoded == c_pc = "done" /\ c_type \in DecodeTypes
DecodeFailed == Decoded /\ ~c_out.ok /\ c_out.val = "ResponseDecoding"

\* C10 as stated: a deserialize that returns a decoding fault leaves the
\* cursor where it was before the call.
C10_FailureLeavesCursor == DecodeFailed => c_out.rest = c_input

(***************************************************************************)
(* Enumerated tokens                                                       *)
(***************************************************************************)
EnumDecoded == c_pc = "done" /\ c_type \in EnumTypes

\* the declared positions of the literals that are a case-exact prefix of
\* the text at the cursor
PrefixLiterals(table, input) ==
    {i \in 1..Len(table) :
        /\ Len(table[i].literal) <= Len(input)
        /\ \A k \in 1..Len(table[i].literal) :
               Char(input, k) = Char(table[i].literal, k)}

\* C11: decoding an enumerated token tries the literals in declared order,
\* anchored at the cursor and case-exact; the first literal that is a prefix
\* of the text wins and the cursor advances by exactly its length; if none
\* is a prefix the decode fails and the cursor has not moved.  "CH2" as a
\* Channel is Two with 3 characters consumed, "CH3" as a Channel fails.
C11_FirstLiteralWins ==
    /\ EnumDecoded =>
         LET table == EnumTable(c_type)
             hits == PrefixLiterals(table, c_input)
         IN  IF hits = {}
             THEN /\ ~c_out.ok
                  /\ c_out.val = "ResponseDecoding"
                  /\ c_out.rest = c_input
             ELSE LET first == CHOOSE i \in hits : \A j \in hits : i <= j
                  IN  /\ c_out.ok
                      /\ c_out.val = table[first].variant
                      /\ Len(c_out.rest) =
                             Len(c_input) - Len(table[first].literal)
                      /\ table[first].literal \o c_out.rest = c_input
    /\ (EnumDecoded /\ c_type = "Channel" /\ c_input = "CH2") =>
         c_out = Ok("Two", "")
    /\ (EnumDecoded /\ c_type = "Channel" /\ c_input = "CH3") =>
         c_out = Err("CH3")

C11_Witness ==
    /\ EnumDecoded /\ c_type = "Channel" /\ c_input = "CH2"
    /\ c_value = NoValue
    /\ c_out.ok /\ c_out.val = "Two" /\ c_out.rest = ""

EnumEncoded == c_type \in EnumTypes /\ c_value.given /\ c_pc # "encode"

\* C12: for each of the seven enumerated token sets and each of its values
\* v, decoding the encoding of v yields v and consumes the text fully, and
\* no two distinct values of a set encode to the same literal.
C12_EnumRoundTrip ==
    /\ (EnumDecoded /\ c_value.given) =>
         /\ c_out.ok
         /\ c_out.val = c_value.v
         /\ c_out.rest = ""
    /\ EnumEncoded =>
         \A other \in Variants(EnumTable(c_type)) \ {c_value.v} :
             enum_serialize(EnumTable(c_type), other) # c_input

C12_Witness ==
    /\ EnumDecoded /\ c_type = "OperationMode"
    /\ c_value = Value("Parallel")
    /\ c_input = "2"
    /\ c_out = Ok("Parallel", "")

(***************************************************************************)
(* Reading                                                                 *)
(***************************************************************************)
ReadingEncoded == c_type = "Reading" /\ c_value.given /\ c_pc # "encode"

\* the text is digits, one dot, exactly three digits
ThreeFractionDigits(text) ==
    LET dot == find(text, ".")
    IN  /\ dot >= 2
        /\ Len(text) = dot + 3
        /\ \A i \in (1..Len(text)) \ {dot} : Char(text, i) \in is_numeric

\* C13: for every count of thousandths m in 0..65535, Reading(m) encodes as
\* its whole part, a dot and exactly three fraction digits, and decoding that
\* text returns Reading(m) with the text fully consumed.
C13_ReadingRoundTrip ==
    /\ ReadingEncoded =>
         LET dot == find(c_input, ".")
         IN  /\ ThreeFractionDigits(c_input)
             /\ digits_value(Take(c_input, dot - 1), 10) = c_value.v \div 1000
             /\ digits_value(Drop(c_input, dot), 10) = c_value.v % 1000
             /\ (dot > 2 => Char(c_input, 1) # "0")
    /\ (ReadingEncoded /\ c_pc = "done") =>
         /\ c_out.ok
         /\ c_out.val = c_value.v
         /\ c_out.rest = ""

C13_Witness ==
    /\ ReadingEncoded /\ c_pc = "done"
    /\ c_value = Value(U16_MAX)
    /\ c_input = "65.535"
    /\ c_out = Ok(U16_MAX, "")

C13_WitnessPadded ==
    /\ ReadingEncoded /\ c_pc = "done"
    /\ c_value = Value(1005)
    /\ c_input = "1.005"
    /\ c_out = Ok(1005, "")

(***************************************************************************)
(* Properties of single queries, checked under Spec                        *)
(***************************************************************************)
CallReturned(t) == call[t] # NoCall /\ pc[t] \in {"done", "panicked"}

\* C14 as stated: the timing-parameter reply "3,0.5,2" of the manual, read
\* as the line answering TIMEr:SET? CH1,2, decodes through execute to
\* voltage 3.000, current 0.500 and time 2.
C14_TimingFixtureDecodes ==
    \A t \in Tasks :
        /\ CallReturned(t)
        /\ call[t].method = "get_timing_parameters"
        /\ written[t] = "TIMEr:SET? CH1,2\n"
        /\ line[t] = "3,0.5,2\n"
        => /\ ret[t].kind = "Ok"
           /\ parsed[t].ok

(***************************************************************************)
(* Status word                                                             *)
(***************************************************************************)
StatusDecoded == c_pc = "done" /\ c_type = "SystemStatus"

\* the bit of the given weight (a power of two) is set in the value
BitSet(value, weight) == value % (2 * weight) >= weight

ChannelStatus(value, mode, output, timer, display) ==
    [mode |-> IF BitSet(value, mode) THEN "ConstantCurrent"
              ELSE "ConstantVoltage",
     output |-> IF BitSet(value, output) THEN "On" ELSE "Off",
     timer |-> IF BitSet(value, timer) THEN "On" ELSE "Off",
     display |-> IF BitSet(value, display) THEN "WaveformDisplay"
                 ELSE "DigitalDisplay"]

\* C15: for every 16-bit status value whose bits 2-3 are not both zero the
\* decode yields the operation mode of bits 3,2 (01 independent, 10 parallel,
\* 11 series), channel 1 mode, output, timer, display from bits 0, 4, 6, 8
\* and channel 2 from bits 1, 5, 7, 9 (set means constant current, on, on,
\* waveform display); bits 10-15 have no influence.  0x0224 is independent,
\* CH1 off, CH2 on, CH2 waveform display, both channels constant voltage.
C15_StatusDecode ==
    /\ (StatusDecoded /\ (BitSet(c_value.v, 4) \/ BitSet(c_value.v, 8))) =>
         /\ c_out.ok
         /\ c_out.val.operation_mode =
              (IF ~BitSet(c_value.v, 8) THEN "Independent"
               ELSE IF ~BitSet(c_value.v, 4) THEN "Parallel" ELSE "Series")
         /\ c_out.val.channel_one = ChannelStatus(c_value.v, 1, 16, 64, 256)
         /\ c_out.val.channel_two = ChannelStatus(c_value.v, 2, 32, 128, 512)
         /\ c_out.val = SystemStatusResponse_decode(c_value.v % 1024)
    /\ (StatusDecoded /\ c_value.v = 548) =>
         c_out.val =
            [operation_mode |-> "Independent",
             channel_one |-> [mode |-> "ConstantVoltage", output |-> "Off",
                              timer |-> "Off", display |-> "DigitalDisplay"],
             channel_two |-> [mode |-> "ConstantVoltage", output |-> "On",
                              timer |-> "Off",
                              display |-> "WaveformDisplay"]]

C15_Witness ==
    /\ StatusDecoded
    /\ c_value = Value(548)
    /\ c_out.ok
    /\ c_out.val.operation_mode = "Independent"
    /\ c_out.val.channel_two.output = "On"

\* a status word with bits above bit 9 set has been decoded
C15_WitnessHighBits ==
    /\ StatusDecoded
    /\ c_value = Value(U16_MAX)
    /\ c_out.ok
    /\ c_out.val.operation_mode = "Series"

\* C16 as stated: a status reply whose operation-mode bits are 00 comes back
\* from the status query as a decode fault value; it is never mapped to an
\* operation mode and never ends the program.
C16_InvalidModeIsDecodeFault ==
    \A t \in Tasks :
        /\ CallReturned(t)
        /\ call[t].method \in {"get_status", "get_output"}
        /\ line[t] = "0x0000\n"
        => /\ pc[t] = "done"
           /\ ret[t].kind = "ResponseDecoding"

(***************************************************************************)
(* Optional channel qualifier                                              *)
(***************************************************************************)
RequestEncoded == c_type = "Request" /\ c_pc = "encoded"

\* the command without its channel qualifier
Unqualified(request) ==
    (IF request.quantity = "Voltage" THEN "VOLTage" ELSE "CURRent")
    \o (IF request.type = "GetLimitRequest" THEN "?"
        ELSE IF request.value = 1000 THEN " 1.000" ELSE " 1.337")

\* C17: an absent optional channel contributes nothing to the encoded
\* command and a present one contributes its literal followed by a colon:
\* a limit-set request with channel None is the quantity, a space and the
\* value, without channel prefix and without colon; with Some(One) and value
\* 1.000 it is "CH1:VOLTage 1.000"; the same holds for limit-get requests.
C17_OptionalChannel ==
    /\ RequestEncoded =>
         LET request == c_value.v
         IN  /\ request.channel = "None" =>
                  /\ c_input = Unqualified(request)
                  /\ \A i \in 1..Len(c_input) : Char(c_input, i) # ":"
             /\ request.channel = "One" =>
                  c_input = "CH1:" \o Unqualified(request)
             /\ request.channel = "Two" =>
                  c_input = "CH2:" \o Unqualified(request)
    /\ (RequestEncoded
        /\ c_value.v = [type |-> "SetLimitRequest", quantity |-> "Voltage",
                        value |-> 1000, channel |-> "One"]) =>
         c_input = "CH1:VOLTage 1.000"

C17_Witness ==
    /\ RequestEncoded
    /\ c_value.v.type = "SetLimitRequest"
    /\ c_value.v.channel = "One"
    /\ c_input = "CH1:VOLTage 1.000"

\* a limit-get request without channel has been encoded
C17_WitnessAbsent ==
    /\ RequestEncoded
    /\ c_value.v.type = "GetLimitRequest"
    /\ c_value.v.channel = "None"
    /\ c_input = "CURRent?"

(***************************************************************************)
(* Time intervals                                                          *)
(***************************************************************************)
\* C18 as stated: no TimeInterval above 10000 exists where a timing-parameter
\* set request is encoded, whether the value came from the integer conversion
\* or from decoding a text, so no such interval reaches the wire.
C18_IntervalInRangeOnWire ==
    \A t \in Tasks :
        /\ call[t] # NoCall
        /\ call[t].method = "set_timing_parameters"
        /\ written[t] # ""
        => call[t].time <= TimeInterval_MAX

(***************************************************************************)
(* Identity response                                                       *)
(***************************************************************************)
IdentityDecoded == c_pc = "done" /\ c_type = "IdentityResponse"

\* the position of the first occurrence of the character after position
\* `from`, -1 if there is none or if `from` is itself -1
NextAt(text, character, from) ==
    LET hits == {i \in 1..Len(text) : i > from /\ Char(text, i) = character}
    IN  IF from = -1 \/ hits = {} THEN -1
        ELSE CHOOSE i \in hits : \A j \in hits : i <= j

\* the position of the n-th comma of the text, -1 if it has fewer
RECURSIVE NthComma(_, _)
NthComma(text, n) ==
    IF n = 0 THEN 0 ELSE NextAt(text, ",", NthComma(text, n - 1))

\* the position of the first newline after the fourth comma
FieldsEnd(text) == NextAt(text, "\n", NthComma(text, 4))

\* the text strictly between two positions
Between(text, from, to) == SubSeq(text, from + 1, to - 1)

\* `trimmed` is `text` without the whitespace around it
IsTrimOf(trimmed, text) ==
    \E i \in 0..Len(text) : \E j \in i..Len(text) :
        /\ trimmed = SubSeq(text, i + 1, j)
        /\ \A k \in (1..i) \cup ((j + 1)..Len(text)) :
               Char(text, k) \in Whitespace
        /\ i < j => /\ Char(text, i + 1) \notin Whitespace
                    /\ Char(text, j) \notin Whitespace

\* C19: the identity response decodes into exactly five fields: the first
\* four are the texts before the first four commas, the fifth is the text
\* before the newline, each with the surrounding whitespace trimmed; a line
\* with fewer than four commas or without newline is a decode fault.
C19_IdentityFields ==
    IdentityDecoded =>
        IF FieldsEnd(c_input) = -1
        THEN ~c_out.ok /\ c_out.val = "ResponseDecoding"
        ELSE /\ c_out.ok
             /\ DOMAIN c_out.val =
                  {"company_name", "model_number", "serial_number",
                   "software_version", "hardware_version"}
             /\ IsTrimOf(c_out.val.company_name,
                         Between(c_input, 0, NthComma(c_input, 1)))
             /\ IsTrimOf(c_out.val.model_number,
                         Between(c_input, NthComma(c_input, 1),
                                 NthComma(c_input, 2)))
             /\ IsTrimOf(c_out.val.serial_number,
                         Between(c_input, NthComma(c_input, 2),
                                 NthComma(c_input, 3)))
             /\ IsTrimOf(c_out.val.software_version,
                         Between(c_input, NthComma(c_input, 3),
                                 NthComma(c_input, 4)))
             /\ IsTrimOf(c_out.val.hardware_version,
                         Between(c_input, NthComma(c_input, 4),
                                 FieldsEnd(c_input)))
             /\ c_out.rest = Drop(c_input, FieldsEnd(c_input))

C19_Witness ==
    /\ IdentityDecoded
    /\ c_input =
         "Siglent Technologies, SPD3303X, SPD00001130025, 1.01.01.01.02,V3.0\n"
    /\ c_out.ok
    /\ c_out.val = [company_name |-> "Siglent Technologies",
                    model_number |-> "SPD3303X",
                    serial_number |-> "SPD00001130025",
                    software_version |-> "1.01.01.01.02",
                    hardware_version |-> "V3.0"]

\* a line with three commas has been rejected
C19_WitnessFault ==
    /\ IdentityDecoded
    /\ c_input = "a,b,c,d\n"
    /\ ~c_out.ok

(***************************************************************************)
(* Output state through a channel view, checked under SpecOutput           *)
(***************************************************************************)
\* get_output on a channel view returns a state in this step
GetOutputReturns(t) ==
    /\ shared
    /\ call[t] # NoCall
    /\ call[t].method = "get_output"
    /\ pc[t] = "check_empty"
    /\ pc'[t] = "done"
    /\ ret'[t].kind = "Ok"

\* C20: on a channel view, once set_output(s) has completed, the next
\* get_output on that channel returns s, for s On or Off and for either
\* channel; the device applies the commands in arrival order and reports the
\* output state of channel 1 and 2 in status bits 4 and 5 with a valid
\* operation mode.  "Next" is taken in the order of the session: s is the
\* state of the last set_output that completed on the channel.
C20_GetOutputAfterSetOutput ==
    [][\A t \in Tasks :
          (GetOutputReturns(t) /\ last_output[call[t].channel] # "None")
              => ret'[t].val = last_output[call[t].channel]]_vars

C20_Witness ==
    \E t \in Tasks :
        /\ shared
        /\ call[t] # NoCall
        /\ call[t].method = "get_output"
        /\ call[t].channel = "One"
        /\ pc[t] = "done"
        /\ last_output["One"] = "On"
        /\ line[t] = "0x0014\n"
        /\ ret[t].kind = "Ok"
        /\ ret[t].val = "On"

\* get_output has returned Off on channel two after set_output(Off)
C20_WitnessOff ==
    \E t \in Tasks :
        /\ shared
        /\ call[t] # NoCall
        /\ call[t].method = "get_output"
        /\ call[t].channel = "Two"
        /\ pc[t] = "done"
        /\ last_output["Two"] = "Off"
        /\ ret[t].kind = "Ok"
        /\ ret[t].val = "Off"

(***************************************************************************)
(* Transport faults, checked under Spec                                    *)
(***************************************************************************)
\* the call returned the fault of its write, of its read
WriteFault(r) == r.kind = "IoError" /\ r.val = "write"
ReadFault(r) == r.kind = "IoError" /\ r.val = "read"

\* what a returned call has done agrees with what it returned
FaultsAreWhole(t) ==
    /\ WriteFault(ret[t]) =>
          ops[t] = <<>> /\ written[t] = "" /\ line[t] = ""
          /\ parsed[t] = NoParse
    /\ ReadFault(ret[t]) =>
          ops[t] = <<"write">> /\ line[t] = "" /\ parsed[t] = NoParse
    /\ (Executing(t) /\ ops[t] # ExecuteSteps) =>
          ret[t].kind \in {"IoError", "ResponseDecoding", "panic"}
    /\ (Sending(t) /\ ops[t] # <<"write">>) => WriteFault(ret[t])

\* the step of task t out of the write on a broken connection
WriteFails(t) ==
    pc[t] = "send_raw" /\ stream = "failed" /\ pc'[t] # "send_raw"

\* the step of task t out of the read on a broken connection
ReadFails(t) ==
    pc[t] = "read_line" /\ stream = "failed" /\ pc'[t] # "read_line"

\* C21: when the write of a request fails, execute and send return the
\* transport fault and read nothing from the transport; when the read fails
\* nothing is decoded; no failing call returns a partial or a default value.
C21_FaultsShortCircuit ==
    /\ [](\A t \in Tasks : CallReturned(t) => FaultsAreWhole(t))
    /\ [][\A t \in Tasks :
            /\ WriteFails(t) =>
                  /\ pc'[t] = "done" /\ WriteFault(ret'[t])
                  /\ ops'[t] = <<>> /\ rx' = rx /\ line'[t] = ""
                  /\ dev_in' = dev_in
            /\ ReadFails(t) =>
                  /\ pc'[t] = "done" /\ ReadFault(ret'[t])
                  /\ ops'[t] = <<"write">> /\ rx' = rx
                  /\ parsed'[t] = NoParse]_vars

C21_Witness ==
    \E t \in Tasks :
        /\ Executing(t) /\ pc[t] = "done"
        /\ ReadFault(ret[t])
        /\ ops[t] = <<"write">>
        /\ parsed[t] = NoParse

\* a send has returned the fault of its write
C21_WitnessWrite ==
    \E t \in Tasks :
        /\ Sending(t) /\ pc[t] = "done"
        /\ WriteFault(ret[t])
        /\ ops[t] = <<>>

(***************************************************************************)
(* Parsing primitives, checked under SpecCodec                             *)
(***************************************************************************)
Parsed == c_type = "primitive" /\ c_pc \in {"parsed", "parsed2"}

\* the character occurs in the text
Occurs(character, text) ==
    \E i \in 1..Len(text) : Char(text, i) = character

\* the call consumed `consumed` from the front of the cursor and nothing else
Advanced(consumed) == c_out.ok /\ consumed \o c_out.rest = c_input

\* the call failed with a decode fault and the cursor is where it was
Refused ==
    ~c_out.ok /\ c_out.val = "ResponseDecoding" /\ c_out.rest = c_input

MatchLiteralFrame(literal) ==
    IF /\ Len(literal) <= Len(c_input)
       /\ \A i \in 1..Len(literal) : Char(c_input, i) = Char(literal, i)
    THEN Advanced(literal)
    ELSE Refused

ReadUntilFrame(delimiter) ==
    IF Occurs(delimiter, c_input)
    THEN /\ Advanced(c_out.val \o delimiter)
         /\ ~Occurs(delimiter, c_out.val)
    ELSE Refused

ReadExactFrame(len) ==
    IF len <= Len(c_input)
    THEN Advanced(c_out.val) /\ Len(c_out.val) = len
    ELSE Refused

ReadWhileFrame(pattern) ==
    /\ Advanced(c_out.val)
    /\ \A i \in 1..Len(c_out.val) : Char(c_out.val, i) \in pattern
    /\ c_out.rest # "" => Char(c_out.rest, 1) \notin pattern

\* C22: each parsing primitive either succeeds and advances the cursor past
\* exactly what it consumed (match_literal: the literal; read_until and
\* read_all, the reader of the remaining line: the prefix and the delimiter;
\* read_exact: n characters; read_while: the maximal prefix satisfying the
\* predicate, possibly empty) or fails and leaves the cursor unchanged, so
\* that a failed read_exact or match_literal can be followed by a successful
\* one on the same input; read_while never fails.
C22_PrimitivesFrame ==
    Parsed =>
        /\ c_value.v.name = "match_literal" =>
              MatchLiteralFrame(c_value.v.literal)
        /\ c_value.v.name = "read_until" =>
              ReadUntilFrame(c_value.v.delimiter)
        /\ c_value.v.name = "read_all" => ReadUntilFrame("\n")
        /\ c_value.v.name = "read_exact" => ReadExactFrame(c_value.v.len)
        /\ c_value.v.name = "read_while" =>
              ReadWhileFrame(IF c_value.v.pattern = "is_numeric"
                             THEN {"0", "1", "2", "3", "4", "5", "6", "7",
                                   "8", "9"}
                             ELSE {"0", "1", "2", "3", "4", "5", "6", "7",
                                   "8", "9", "a", "b", "c", "d", "e", "f",
                                   "A", "B", "C", "D", "E", "F"})

\* read_exact(3) failed on "17" and read_exact(2) then returned "17"
C22_Witness ==
    /\ Parsed /\ c_pc = "parsed2"
    /\ c_value.after = [name |-> "read_exact", ok |-> FALSE]
    /\ c_value.v = [name |-> "read_exact", len |-> 2]
    /\ c_input = "17"
    /\ c_out = Ok("17", "")

\* match_literal failed and another match_literal then succeeded
C22_WitnessLiteral ==
    /\ Parsed /\ c_pc = "parsed2"
    /\ c_value.after = [name |-> "match_literal", ok |-> FALSE]
    /\ c_value.v = [name |-> "match_literal", literal |-> "17"]
    /\ c_input = "17."
    /\ c_out = Ok("()", ".")

\* read_while has consumed nothing, read_all has consumed a line
C22_WitnessEmpty ==
    /\ Parsed
    /\ c_value.v.name = "read_while"
    /\ c_input = "x"
    /\ c_out = Ok("", "x")

C22_WitnessLine ==
    /\ Parsed
    /\ c_value.v.name = "read_all"
    /\ c_input = "12,34\nasdf"
    /\ c_out = Ok("12,34", "asdf")

(***************************************************************************)
(* Reading texts with any number of fraction digits, under SpecCodec       *)
(***************************************************************************)
\* the text is one or more digits, a dot and one or more digits
DigitsDotDigits(text) ==
    LET dot == find(text, ".")
    IN  /\ dot >= 2
        /\ Len(text) > dot
        /\ \A i \in (1..Len(text)) \ {dot} : Char(text, i) \in is_numeric

WholeDigits(text) == Take(text, find(text, ".") - 1)
FractionDigits(text) == Drop(text, find(text, "."))

ReadingDecoded ==
    c_type = "Reading" /\ c_pc = "done" /\ DigitsDotDigits(c_input)

DecodeFault(r) == ~r.ok /\ r.val = "ResponseDecoding"

\* C24: decoding a Reading from digits, a dot and digits never aborts and
\* never returns a wrapped value: when whole * 1000 + fraction does not fit
\* 0..65535, or a digit run alone exceeds 65535, the result is a decode
\* fault returned as a value.
C24_ReadingOutOfRangeIsFault ==
    ReadingDecoded =>
        LET whole == digits_value(WholeDigits(c_input), 10)
            fraction == digits_value(FractionDigits(c_input), 10)
        IN  (\/ whole > U16_MAX
             \/ fraction > U16_MAX
             \/ whole * 1000 + fraction > U16_MAX) => DecodeFault(c_out)

\* the part of C24 that the code keeps: a digit run above 65535 is a decode
\* fault
C24_DigitRunAboveU16 ==
    (ReadingDecoded
        /\ \/ digits_value(WholeDigits(c_input), 10) > U16_MAX
           \/ digits_value(FractionDigits(c_input), 10) > U16_MAX)
    => DecodeFault(c_out)

Pow10(n) == IF n = 0 THEN 1 ELSE IF n = 1 THEN 10 ELSE IF n = 2 THEN 100 ELSE 1000

\* C25: the fraction digits of a Reading are a decimal fraction: "0.5" is 500
\* thousandths and "1.50" is 1500; a fraction of more than three digits is not
\* accepted as a larger count.  Stated for the texts on which the sum of
\* the code does not leave 0..65535.
C25_FractionIsDecimal ==
    (ReadingDecoded
        /\ digits_value(WholeDigits(c_input), 10) * 1000
           + digits_value(FractionDigits(c_input), 10) <= U16_MAX)
    =>  LET whole == digits_value(WholeDigits(c_input), 10)
            digits == FractionDigits(c_input)
        IN  IF Len(digits) <= 3
            THEN c_out.ok =>
                   c_out.val = whole * 1000
                               + digits_value(digits, 10)
                                 * Pow10(3 - Len(digits))
            ELSE ~c_out.ok

(***************************************************************************)
(* End of stream during the read of a response, checked under Spec         *)
(***************************************************************************)
\* read_line of the task returned at end of stream: nothing, or a line
\* without its newline
EndOfStreamLine(t) ==
    /\ Len(ops[t]) >= 2 /\ ops[t][2] = "read"
    /\ line[t] = "" \/ Char(line[t], Len(line[t])) # "\n"

\* C26: no execute returns a successful value when the transport reached
\* end-of-stream before delivering a newline-terminated response line (a
\* read of zero bytes or of a partial line without newline): for every
\* query type, including the system version query, the caller receives a
\* fault.
C26_EndOfStreamIsFault ==
    \A t \in Tasks :
        (pc[t] = "done" /\ EndOfStreamLine(t)) => ret[t].kind # "Ok"

\* the part of C26 that the code keeps: the queries other than the system
\* version query fail at end of stream
C26_OtherQueriesFault ==
    \A t \in Tasks :
        (pc[t] = "done" /\ EndOfStreamLine(t)
            /\ call[t].method # "get_version") => ret[t].kind # "Ok"

(***************************************************************************)
(* Waiting for a reply that does not come, checked under Spec              *)
(***************************************************************************)
\* the execute of the task is in read_line and no newline has arrived
Waiting(t) == pc[t] = "read_line" /\ find(rx, "\n") = 0

Completed(state) == state \in {"done", "panicked"}

\* while `waiting` holds of a task, a step leaves the task in read_line, and
\* after into_channels no other task passes the lock or completes a call
StaysBlocked(waiting(_)) ==
    \A t \in Tasks :
        waiting(t) =>
            /\ pc'[t] = "read_line"
            /\ shared =>
                 \A u \in Tasks \ {t} :
                     /\ pc[u] = "lock" => pc'[u] = "lock"
                     /\ ~Completed(pc[u]) => ~Completed(pc'[u])

\* C23 as stated: there is no timeout: if the device never sends a newline
\* after a request, the execute that is waiting never returns, and because
\* the channel views hold the session lock for the whole call, every other
\* caller on any channel view of the same session also never completes.
C23_BlockedWithoutNewline ==
    [][StaysBlocked(Waiting)]_vars

WaitingOpen(t) == Waiting(t) /\ stream = "open"

\* C23, amended: there is no timeout: while no newline has arrived and the
\* connection is neither closed by the device nor broken, the execute that
\* is waiting does not return and, the channel views holding the session
\* lock for the whole call, no other caller on a channel view passes the
\* lock or completes.
C23_BlockedWhileOpen ==
    /\ [](\A t \in Tasks : (shared /\ pc[t] = "read_line") => lock = t)
    /\ [][StaysBlocked(WaitingOpen)]_vars

\* a view call waits for the reply of a device that has the query and has
\* not answered, another view call waits for the lock
C23_Witness ==
    /\ shared
    /\ WaitingOpen("t1")
    /\ lock = "t1"
    /\ dev_in # <<>>
    /\ pc["t2"] = "lock"

=============================================================================
